---- MODULE Spec2Model ----
(***************************************************************************)
(* spark-on-k8s: the command-line surface (spark_on_k8s/cli/app.py), the   *)
(* listing endpoint (spark_on_k8s/api/apps.py) and the behaviour the tests *)
(* (tests/test_spark_client.py) pin for the submission client, over a      *)
(* cluster that changes pod phases, produces log lines and deletes pods.   *)
(*                                                                         *)
(* SparkAppManager, SparkOnK8S.submit_app and get_app_status are imported  *)
(* by these files but their code is not part of the sources at hand; they  *)
(* are modelled from the specification (sections 4.1 - 4.6) and, where the *)
(* tests state expected values, from the tests.                            *)
(***************************************************************************)
EXTENDS Integers, Sequences, FiniteSets, TLC

VARIABLES
    pod,        \* app id -> phase of its driver pod, "Absent" when there is none
    svc,        \* app id -> whether its driver service (network endpoint) exists
    produced,   \* app id -> the log lines its driver container has written
    created,    \* app ids a submission has ever used
    pc,         \* position of the running command
    cmd,        \* the command invoked ("none" before the invocation)
    app,        \* its --app-id
    force,      \* delete's --force flag as given on the command line
    mode,       \* submit's app_waiter
    obs,        \* status seen by the last poll of wait_for_app
    out,        \* log lines printed so far
    stream,     \* the log stream: "none", "open", "exited", "dropped", "gone"
    ret,        \* status printed or returned to the caller
    err,        \* error raised to the caller
    driver_pods,\* list_apps: the pods returned by list_namespaced_pod
    resp,       \* list_apps: the response, app id -> SparkApp
    app_name,   \* _parse_app_name_and_id: <<>> for None, else <<the raw name>>
    app_id_suffix, \* _parse_app_name_and_id: what the suffix function returns
    parsed,     \* _parse_app_name_and_id: <<>> before the call, then <<name, id>>
    options,    \* submit_app: the submission options
    args,       \* submit_app: the driver container's args, <<>> before the call
    polls,      \* wait_for_app: the polls of the status made so far
    deleted_at  \* polls made when the waited-for pod was deleted, -1 if it was not

cluster == <<pod, svc, produced, created>>
client == <<pc, cmd, app, force, mode, obs, out, stream, ret, err>>
listing == <<driver_pods, resp>>
naming == <<app_name, app_id_suffix, parsed>>
manifest == <<options, args>>
waiting == <<polls, deleted_at>>
vars == <<pod, svc, produced, created, pc, cmd, app, force, mode, obs, out,
          stream, ret, err, driver_pods, resp, app_name, app_id_suffix, parsed,
          options, args, polls, deleted_at>>

----------------------------------------------------------------------------
\* Bounds of the model.

\* Log lines one driver container writes.
MaxLines == 2

\* Polls one wait_for_app makes before the caller's timeout cancels it.
MaxPolls == 3

\* Applications in the namespace.
Apps == {"app-1", "app-2"}

----------------------------------------------------------------------------
\* The cluster.

RecognisedPhases == {"Pending", "Running", "Succeeded", "Failed"}

\* pod.status.phase: the four phases the status mapper names, the cluster's
\* own "Unknown", and a pod whose status has no phase set.
Phases == RecognisedPhases \cup {"Unknown", "Unset"}

Statuses == {"Waiting", "Running", "Succeeded", "Failed", "Unknown", "NotFound"}

TerminalStatuses == {"Succeeded", "Failed", "NotFound"}

NonTerminalStatuses == {"Waiting", "Running", "Unknown"}

\* The phases the cluster may move a pod to from phase p.
PhaseSteps(p) ==
    CASE p = "Pending" -> {"Running", "Failed", "Unknown", "Unset"}
      [] p = "Running" -> {"Succeeded", "Failed", "Unknown", "Unset"}
      [] p \in {"Unknown", "Unset"} -> {"Running", "Failed"}
      [] OTHER -> {}

PhaseChange(a) ==
    /\ pod[a] # "Absent"
    /\ \E q \in PhaseSteps(pod[a]) : pod' = [pod EXCEPT ![a] = q]
    /\ UNCHANGED <<svc, produced, created, client, listing, naming, manifest, waiting>>

\* The running driver container writes its next log line.
ProduceLine(a) ==
    /\ pod[a] = "Running"
    /\ Len(produced[a]) < MaxLines
    /\ produced' = [produced EXCEPT ![a] = Append(@, Len(@) + 1)]
    /\ UNCHANGED <<pod, svc, created, client, listing, naming, manifest, waiting>>

\* Someone else deletes the driver pod; deleted_at records it when a
\* wait_for_app on that pod is in progress.
ExternalDelete(a) ==
    /\ pod[a] # "Absent"
    /\ pod' = [pod EXCEPT ![a] = "Absent"]
    /\ deleted_at' = IF pc = "wait_poll" /\ app = a THEN polls ELSE deleted_at
    /\ UNCHANGED <<svc, produced, created, client, listing, naming, manifest, polls>>

----------------------------------------------------------------------------
\* StatusMapper.

get_app_status(phase) ==
    IF phase = "Pending" THEN "Waiting"
    ELSE IF phase = "Running" THEN "Running"
    ELSE IF phase = "Succeeded" THEN "Succeeded"
    ELSE IF phase = "Failed" THEN "Failed"
    ELSE "Unknown"

\* SparkAppManager.app_status: re-derived from the cluster on every call.
app_status(a) == IF pod[a] = "Absent" THEN "NotFound" ELSE get_app_status(pod[a])

----------------------------------------------------------------------------
\* SparkAppManager, as the commands use it.

\* wait_for_app: one poll of the status; returns at the first terminal one,
\* otherwise sleeps poll_interval and polls again.
wait_for_app ==
    /\ pc = "wait_poll"
    /\ polls < MaxPolls
    /\ polls' = polls + 1
    /\ obs' = app_status(app)
    /\ pc' = IF app_status(app) \in TerminalStatuses THEN "wait_returned" ELSE "wait_poll"
    /\ UNCHANGED <<cluster, cmd, app, force, mode, out, stream, ret, err, listing, naming, manifest, deleted_at>>

\* stream_logs, before the stream opens: blocks while the container is not
\* running yet; a pod that does not exist is reported.
StreamAttach ==
    /\ pc = "logs_attach"
    /\ pod[app] # "Pending"
    /\ IF pod[app] = "Absent"
         THEN /\ err' = "NotFoundError"
              /\ pc' = "done"
              /\ UNCHANGED stream
         ELSE /\ stream' = "open"
              /\ pc' = "logs_stream"
              /\ UNCHANGED err
    /\ UNCHANGED <<cluster, cmd, app, force, mode, obs, out, ret, listing, naming, manifest, waiting>>

\* Where a command continues once its log stream has ended.
AfterStream == IF cmd = "submit" THEN "final_status" ELSE "done"

StreamDeliverSkipping ==
    /\ pc = "logs_stream"
    /\ pod[app] # "Absent"
    /\ Len(out) < Len(produced[app])
    /\ out' = Append(out, produced[app][Len(produced[app])])
    /\ UNCHANGED <<cluster, pc, cmd, app, force, mode, obs, stream, ret, err, listing, naming, manifest, waiting>>

\* The next line the container wrote is printed.
StreamDeliver ==
    /\ pc = "logs_stream"
    /\ pod[app] # "Absent"
    /\ Len(out) < Len(produced[app])
    /\ out' = Append(out, produced[app][Len(out) + 1])
    /\ UNCHANGED <<cluster, pc, cmd, app, force, mode, obs, stream, ret, err, listing, naming, manifest, waiting>>

StreamEofEarly ==
    /\ pc = "logs_stream"
    /\ pod[app] \in {"Succeeded", "Failed"}
    /\ stream' = "exited"
    /\ pc' = AfterStream
    /\ UNCHANGED <<cluster, cmd, app, force, mode, obs, out, ret, err, listing, naming, manifest, waiting>>

\* The container has exited and every line it wrote was read: end of stream.
StreamEof ==
    /\ pc = "logs_stream"
    /\ pod[app] \in {"Succeeded", "Failed"}
    /\ Len(out) = Len(produced[app])
    /\ stream' = "exited"
    /\ pc' = AfterStream
    /\ UNCHANGED <<cluster, cmd, app, force, mode, obs, out, ret, err, listing, naming, manifest, waiting>>

\* The pod was deleted under the stream: the stream ends where it is.
StreamGone ==
    /\ pc = "logs_stream"
    /\ pod[app] = "Absent"
    /\ stream' = "gone"
    /\ pc' = AfterStream
    /\ UNCHANGED <<cluster, cmd, app, force, mode, obs, out, ret, err, listing, naming, manifest, waiting>>

\* The API connection drops: the stream ends where it is, with no reconnect.
StreamDrop ==
    /\ pc = "logs_stream"
    /\ stream' = "dropped"
    /\ pc' = AfterStream
    /\ UNCHANGED <<cluster, cmd, app, force, mode, obs, out, ret, err, listing, naming, manifest, waiting>>

stream_logs == StreamAttach \/ StreamDeliver \/ StreamEof \/ StreamGone \/ StreamDrop

\* kill_app: deletes the driver pod, and only it; an absent pod is reported.
kill_app(a) ==
    IF pod[a] = "Absent"
      THEN /\ err' = "NotFoundError"
           /\ UNCHANGED pod
      ELSE /\ pod' = [pod EXCEPT ![a] = "Absent"]
           /\ UNCHANGED err

\* delete_app, on entry: without force a job that is not terminal is refused.
delete_app(a, f) ==
    IF ~f /\ app_status(a) \in NonTerminalStatuses
      THEN /\ err' = "PreconditionError"
           /\ pc' = "done"
      ELSE /\ pc' = "delete_pod"
           /\ UNCHANGED err

\* delete_app: the driver pod is deleted; an absent pod is reported.
DeletePod ==
    /\ pc = "delete_pod"
    /\ IF pod[app] = "Absent"
         THEN /\ err' = "NotFoundError"
              /\ pc' = "done"
              /\ UNCHANGED pod
         ELSE /\ pod' = [pod EXCEPT ![app] = "Absent"]
              /\ pc' = "delete_svc"
              /\ UNCHANGED err
    /\ UNCHANGED <<svc, produced, created, cmd, app, force, mode, obs, out, stream, ret, listing, naming, manifest, waiting>>

\* delete_app: then the driver service.
DeleteService ==
    /\ pc = "delete_svc"
    /\ svc' = [svc EXCEPT ![app] = FALSE]
    /\ pc' = "done"
    /\ UNCHANGED <<pod, produced, created, cmd, app, force, mode, obs, out, stream, ret, err, listing, naming, manifest, waiting>>

\* AppWaiter, print mode, before the stream: polls until the container is
\* running or the job is terminal.
PrintWait ==
    /\ pc = "print_wait"
    /\ obs' = app_status(app)
    /\ pc' = IF app_status(app) \in TerminalStatuses \cup {"Running"}
               THEN "logs_attach" ELSE "print_wait"
    /\ UNCHANGED <<cluster, cmd, app, force, mode, out, stream, ret, err, listing, naming, manifest, waiting>>

\* AppWaiter, print mode, after the stream: one final status check, returned.
FinalStatus ==
    /\ pc = "final_status"
    /\ ret' = app_status(app)
    /\ pc' = "done"
    /\ UNCHANGED <<cluster, cmd, app, force, mode, obs, out, stream, err, listing, naming, manifest, waiting>>

\* submit_app in wait mode returns once wait_for_app has.
SubmitWaitDone ==
    /\ pc = "wait_returned"
    /\ cmd = "submit"
    /\ pc' = "done"
    /\ UNCHANGED <<cluster, cmd, app, force, mode, obs, out, stream, ret, err, listing, naming, manifest, waiting>>

\* submit_app: creates the driver pod and its service under an identity no
\* earlier submission used, then waits as app_waiter says.
submit_app(a, app_waiter) ==
    /\ a \notin created
    /\ pod' = [pod EXCEPT ![a] = "Pending"]
    /\ svc' = [svc EXCEPT ![a] = TRUE]
    /\ created' = created \cup {a}
    /\ mode' = app_waiter
    /\ pc' = CASE app_waiter = "print" -> "print_wait"
               [] app_waiter = "wait" -> "wait_poll"
               [] OTHER -> "done"
    /\ UNCHANGED produced

----------------------------------------------------------------------------
\* The commands of spark_on_k8s/cli/app.py.

CliStatus ==
    /\ pc = "idle"
    /\ \E a \in Apps :
         /\ app' = a
         /\ ret' = app_status(a)
    /\ cmd' = "status"
    /\ pc' = "done"
    /\ UNCHANGED <<cluster, force, mode, obs, out, stream, err, listing, naming, manifest, waiting>>

CliLogs ==
    /\ pc = "idle"
    /\ \E a \in Apps : app' = a
    /\ cmd' = "logs"
    /\ pc' = "logs_attach"
    /\ UNCHANGED <<cluster, force, mode, obs, out, stream, ret, err, listing, naming, manifest, waiting>>

CliKillAndService ==
    /\ pc = "idle"
    /\ \E a \in Apps :
         /\ app' = a
         /\ kill_app(a)
         /\ svc' = [svc EXCEPT ![a] = FALSE]
    /\ cmd' = "kill"
    /\ pc' = "done"
    /\ UNCHANGED <<produced, created, force, mode, obs, out, stream, ret, listing, naming, manifest, waiting>>

CliKill ==
    /\ pc = "idle"
    /\ \E a \in Apps :
         /\ app' = a
         /\ kill_app(a)
    /\ cmd' = "kill"
    /\ pc' = "done"
    /\ UNCHANGED <<svc, produced, created, force, mode, obs, out, stream, ret, listing, naming, manifest, waiting>>

CliDeleteForced ==
    /\ pc = "idle"
    /\ \E a \in Apps, f \in BOOLEAN :
         /\ app' = a
         /\ force' = f
         /\ delete_app(a, TRUE)
    /\ cmd' = "delete"
    /\ UNCHANGED <<cluster, mode, obs, out, stream, ret, listing, naming, manifest, waiting>>

CliDelete ==
    /\ pc = "idle"
    /\ \E a \in Apps, f \in BOOLEAN :
         /\ app' = a
         /\ force' = f
         /\ delete_app(a, f)
    /\ cmd' = "delete"
    /\ UNCHANGED <<cluster, mode, obs, out, stream, ret, listing, naming, manifest, waiting>>

\* wait, up to the call of wait_for_app.
CliWaitCall ==
    /\ pc = "idle"
    /\ \E a \in Apps : app' = a
    /\ cmd' = "wait"
    /\ pc' = "wait_poll"
    /\ UNCHANGED <<cluster, force, mode, obs, out, stream, ret, err, listing, naming, manifest, waiting>>

\* wait, after wait_for_app: the status is queried again and printed.
CliWaitReport ==
    /\ pc = "wait_returned"
    /\ cmd = "wait"
    /\ ret' = app_status(app)
    /\ pc' = "done"
    /\ UNCHANGED <<cluster, cmd, app, force, mode, obs, out, stream, err, listing, naming, manifest, waiting>>

CliWaitNoWait ==
    /\ pc = "idle"
    /\ \E a \in Apps :
         /\ app' = a
         /\ ret' = app_status(a)
    /\ cmd' = "wait"
    /\ pc' = "done"
    /\ UNCHANGED <<cluster, force, mode, obs, out, stream, err, listing, naming, manifest, waiting>>

\* wait that calls wait_for_app again when the job was not found.
CliWaitRetrying ==
    \/ CliWaitCall
    \/ /\ pc = "wait_returned"
       /\ cmd = "wait"
       /\ IF app_status(app) = "NotFound" /\ polls < MaxPolls
            THEN pc' = "wait_poll" /\ UNCHANGED ret
            ELSE pc' = "done" /\ ret' = app_status(app)
       /\ UNCHANGED <<cluster, cmd, app, force, mode, obs, out, stream, err, listing, naming, manifest, waiting>>

CliWait == CliWaitCall \/ CliWaitReport

\* app_waiter="print" if logs else "wait" if wait else "no_wait"
AppWaiterOption(logs, wait) == IF logs THEN "print" ELSE IF wait THEN "wait" ELSE "no_wait"

CliSubmit ==
    /\ pc = "idle"
    /\ \E a \in Apps, logs \in BOOLEAN, wait \in BOOLEAN :
         /\ app' = a
         /\ submit_app(a, AppWaiterOption(logs, wait))
    /\ cmd' = "submit"
    /\ UNCHANGED <<force, obs, out, stream, ret, err, listing, naming, manifest, waiting>>

----------------------------------------------------------------------------
\* The listing endpoint of spark_on_k8s/api/apps.py.

\* status=pod.status.phase in place of get_app_status(pod).
SparkAppRawPhase(a, phases) == [app_id |-> a, status |-> phases[a]]

\* SparkApp(app_id=..., status=get_app_status(pod), ...); the spark-ui-proxy
\* label is not modelled.
SparkApp(a, phases) == [app_id |-> a, status |-> get_app_status(phases[a])]

list_apps ==
    /\ pc = "idle"
    /\ driver_pods' = [a \in {b \in Apps : pod[b] # "Absent"} |-> pod[a]]
    /\ resp' = [a \in DOMAIN driver_pods' |-> SparkApp(a, driver_pods')]
    /\ cmd' = "list_apps"
    /\ pc' = "done"
    /\ UNCHANGED <<cluster, app, force, mode, obs, out, stream, ret, err, naming, manifest, waiting>>

----------------------------------------------------------------------------
\* The commands against the cluster.

\* No call of _parse_app_name_and_id or of the manifest builder in progress.
NamingIdle == app_name = <<>> /\ app_id_suffix = "" /\ parsed = <<>>

ManifestIdle == options = <<>> /\ args = <<>>

\* Each application was either never submitted or was submitted earlier
\* without waiting and is pending; no command has been invoked yet.
Init ==
    /\ pod \in [Apps -> {"Absent", "Pending"}]
    /\ svc = [a \in Apps |-> pod[a] # "Absent"]
    /\ created = {a \in Apps : pod[a] # "Absent"}
    /\ produced = [a \in Apps |-> <<>>]
    /\ pc = "idle"
    /\ cmd = "none"
    /\ app = "none"
    /\ force = FALSE
    /\ mode = "none"
    /\ obs = "none"
    /\ out = <<>>
    /\ stream = "none"
    /\ ret = "none"
    /\ err = "none"
    /\ driver_pods = <<>>
    /\ resp = <<>>
    /\ polls = 0
    /\ deleted_at = -1
    /\ NamingIdle
    /\ ManifestIdle

Cluster == \E a \in Apps : PhaseChange(a) \/ ProduceLine(a) \/ ExternalDelete(a)

Next ==
    \/ Cluster
    \/ CliStatus
    \/ CliLogs
    \/ stream_logs
    \/ CliKill
    \/ CliDelete
    \/ DeletePod
    \/ DeleteService
    \/ CliWait
    \/ wait_for_app
    \/ CliSubmit
    \/ SubmitWaitDone
    \/ PrintWait
    \/ FinalStatus
    \/ list_apps

Spec == Init /\ [][Next]_vars

\* The values the variables of the commands take.
TypeOK ==
    /\ pod \in [Apps -> Phases \cup {"Absent"}]
    /\ svc \in [Apps -> BOOLEAN]
    /\ created \subseteq Apps
    /\ \A a \in Apps : produced[a] = [i \in 1..Len(produced[a]) |-> i]
    /\ \A a \in Apps : pod[a] # "Absent" => (svc[a] /\ a \in created)
    /\ pc \in {"idle", "wait_poll", "wait_returned", "logs_attach", "logs_stream",
               "print_wait", "final_status", "delete_pod", "delete_svc", "done"}
    /\ cmd \in {"none", "status", "logs", "kill", "delete", "wait", "submit", "list_apps"}
    /\ app \in Apps \cup {"none"}
    /\ mode \in {"none", "no_wait", "wait", "print"}
    /\ obs \in Statuses \cup {"none"}
    /\ ret \in Statuses \cup {"none"}
    /\ stream \in {"none", "open", "exited", "dropped", "gone"}
    /\ err \in {"none", "NotFoundError", "PreconditionError"}
    /\ polls \in 0..MaxPolls
    /\ deleted_at \in -1..polls

----------------------------------------------------------------------------
\* Properties of the commands.

IsPrefix(s, t) == Len(s) <= Len(t) /\ SubSeq(t, 1, Len(s)) = s

\* C1: wait_for_app returns only at a poll that observes a terminal status
\* (Succeeded, Failed, NotFound), never at one that observes Waiting, Running
\* or Unknown, and the status the wait command then reports is terminal.
C1_WaitReturnsOnlyTerminal ==
    [][/\ (pc = "wait_poll" /\ pc' # "wait_poll")
            => /\ pc' = "wait_returned"
               /\ obs' = app_status(app)
               /\ obs' \in TerminalStatuses
       /\ (pc' = "wait_returned" => obs' \in TerminalStatuses)
       /\ (cmd' = "wait" /\ pc' = "done")
            => /\ obs' \in TerminalStatuses
               /\ ret' \in TerminalStatuses]_vars

\* C1 happens: a wait on a job that was pending has returned Succeeded.
C1_Witness ==
    /\ cmd = "wait"
    /\ pc = "done"
    /\ obs = "Succeeded"
    /\ ret = "Succeeded"

\* C2: delete without --force on a job whose status is Waiting, Running or
\* Unknown raises PreconditionError in that same call and deletes nothing:
\* the driver pod and its service both exist before and after.
C2_DeleteRefusedOnLiveJob ==
    [][(pc = "idle" /\ cmd' = "delete" /\ ~force' /\ app_status(app') \in NonTerminalStatuses)
         => /\ err' = "PreconditionError"
            /\ pc' = "done"
            /\ pod' = pod
            /\ svc' = svc
            /\ pod'[app'] # "Absent"
            /\ svc'[app']]_vars

\* C2 happens: a delete without --force on a running job was refused.
C2_Witness ==
    /\ cmd = "delete"
    /\ ~force
    /\ pc = "done"
    /\ err = "PreconditionError"
    /\ pod[app] = "Running"
    /\ svc[app]

\* C6, as claimed: submit in print mode returns only a terminal status,
\* whatever ended the log stream.
C6_PrintLogsReturnsTerminal ==
    (cmd = "submit" /\ mode = "print" /\ pc = "done" /\ err = "none")
        => ret \in TerminalStatuses

C8_KillRemovesOnlyDriver ==
    [][/\ (pc = "idle" /\ cmd' = "kill")
            => /\ svc' = svc
               /\ produced' = produced
               /\ \A b \in Apps \ {app'} : pod'[b] = pod[b]
               /\ pod'[app'] = "Absent"
               /\ (pod[app'] = "Absent") <=> (err' = "NotFoundError")
       /\ (\E a \in Apps : svc[a] /\ ~svc'[a]) => (cmd = "delete" /\ ~svc'[app])
       /\ (cmd = "delete" /\ pc # "done" /\ pc' = "done" /\ err' = "none")
            => (pod'[app] = "Absent" /\ ~svc'[app])]_vars

\* C8 happens: kill removed a running driver pod and its service is there.
C8_Witness ==
    /\ cmd = "kill"
    /\ pc = "done"
    /\ err = "none"
    /\ pod[app] = "Absent"
    /\ svc[app]
    /\ Len(produced[app]) > 0

\* C9: the lines printed are always a prefix of the lines the container
\* wrote, each step prints at most the next line, and once the stream has
\* ended nothing more is printed and the stream is not reopened.
C9_DeliveredIsPrefix ==
    [][/\ app' # "none" => IsPrefix(out', produced'[app'])
       /\ IsPrefix(out, out')
       /\ Len(out') <= Len(out) + 1
       /\ stream \in {"exited", "dropped", "gone"}
            => (out' = out /\ stream' = stream)]_vars

\* C9 happens: the connection dropped after the first of two lines.
C9_Witness ==
    /\ cmd = "logs"
    /\ stream = "dropped"
    /\ out = <<1>>
    /\ produced[app] = <<1, 2>>

\* C10: every pod listed gets exactly one status, decided by the phase in
\* the snapshot alone: Pending gives Waiting, Running, Succeeded and Failed
\* give themselves, any other phase gives Unknown; pods in the same phase get
\* the same status whatever phases they went through before.
C10_StatusIsFunctionOfSnapshot ==
    /\ DOMAIN resp = DOMAIN driver_pods
    /\ \A a \in DOMAIN resp :
         /\ resp[a].status \in Statuses \ {"NotFound"}
         /\ driver_pods[a] = "Pending" => resp[a].status = "Waiting"
         /\ driver_pods[a] \in {"Running", "Succeeded", "Failed"}
              => resp[a].status = driver_pods[a]
         /\ driver_pods[a] \notin RecognisedPhases => resp[a].status = "Unknown"
    /\ \A a, b \in DOMAIN resp :
         driver_pods[a] = driver_pods[b] => resp[a].status = resp[b].status
    /\ (cmd = "status" /\ pc = "done") => ret \in Statuses

\* C10 happens: a listing saw a pod with no phase set and one that succeeded.
C10_Witness ==
    /\ cmd = "list_apps"
    /\ pc = "done"
    /\ \E a, b \in DOMAIN resp :
         /\ driver_pods[a] = "Unset"
         /\ resp[a].status = "Unknown"
         /\ driver_pods[b] = "Succeeded"
         /\ resp[b].status = "Succeeded"

\* C11: when the driver pod is deleted by someone else while wait_for_app is
\* polling, the first poll after the deletion observes NotFound and
\* wait_for_app returns at that poll with that status; no poll follows it,
\* nothing is retried and no error is raised, and the wait command reports
\* NotFound.
C11_DeletedMidWaitReturnsNotFound ==
    [][/\ (pc = "wait_poll" /\ deleted_at >= 0 /\ polls' # polls)
            => /\ polls' = deleted_at + 1
               /\ obs' = "NotFound"
               /\ pc' = "wait_returned"
               /\ err' = "none"
       /\ (pc # "wait_poll" /\ deleted_at >= 0)
            => /\ polls' = polls
               /\ polls = deleted_at + 1
               /\ obs' = "NotFound"
               /\ pc' \in {"wait_returned", "done"}
               /\ err' = "none"
               /\ (cmd' = "wait" /\ pc' = "done") => ret' = "NotFound"]_vars

\* C11 happens: a wait polled a job that was not terminal, the pod was then
\* deleted, the next poll returned NotFound and the command reported it.
C11_Witness ==
    /\ cmd = "wait"
    /\ pc = "done"
    /\ deleted_at = 1
    /\ polls = 2
    /\ obs = "NotFound"
    /\ ret = "NotFound"
    /\ err = "none"

----------------------------------------------------------------------------
\* NameResolver: SparkOnK8S._parse_app_name_and_id, as the tests pin it.

\* Longest name Kubernetes accepts for a label value or a service.
MaxIdLen == 63

\* default_app_id_suffix() at the tests' frozen time, 2024-01-14 12:12:31.
default_app_id_suffix == "-20240114121231"

\* The name used when app_name is None.
DefaultAppName == "spark-app"

LowerCase == "abcdefghijklmnopqrstuvwxyz"

UpperCase == "ABCDEFGHIJKLMNOPQRSTUVWXYZ"

Letters == {SubSeq(LowerCase, i, i) : i \in 1..26}

Digits == {"0", "1", "2", "3", "4", "5", "6", "7", "8", "9"}

LowerChar(c) ==
    IF \E i \in 1..26 : SubSeq(UpperCase, i, i) = c
      THEN LET i == CHOOSE j \in 1..26 : SubSeq(UpperCase, j, j) = c
           IN SubSeq(LowerCase, i, i)
      ELSE c

CharAt(s, i) == SubSeq(s, i, i)

\* Strings are taken apart in halves, which keeps the evaluation shallow.
RECURSIVE Lowered(_)
Lowered(s) ==
    IF Len(s) <= 1 THEN LowerChar(s)
    ELSE LET h == Len(s) \div 2
         IN Lowered(SubSeq(s, 1, h)) \o Lowered(SubSeq(s, h + 1, Len(s)))

\* Every run of characters outside [a-z0-9] becomes one "-".
RECURSIVE Dashed(_)
Dashed(s) ==
    IF Len(s) = 0 THEN ""
    ELSE IF Len(s) = 1 THEN (IF s \in Letters \cup Digits THEN s ELSE "-")
    ELSE LET h == Len(s) \div 2
             left == Dashed(SubSeq(s, 1, h))
             right == Dashed(SubSeq(s, h + 1, Len(s)))
         IN IF CharAt(left, Len(left)) = "-" /\ CharAt(right, 1) = "-"
              THEN left \o SubSeq(right, 2, Len(right))
              ELSE left \o right

\* Leading characters that are not letters are dropped, digits included.
StripLeading(s) ==
    LET letters == {i \in 1..Len(s) : CharAt(s, i) \in Letters}
    IN IF letters = {} THEN ""
       ELSE SubSeq(s, CHOOSE i \in letters : \A j \in letters : i <= j, Len(s))

LastChar(s) == CharAt(s, Len(s))

StripTrailingDashes(s) ==
    LET kept == {i \in 1..Len(s) : CharAt(s, i) # "-"}
    IN IF kept = {} THEN ""
       ELSE SubSeq(s, 1, CHOOSE i \in kept : \A j \in kept : i >= j)

Sanitize(s) == StripTrailingDashes(StripLeading(Dashed(Lowered(s))))

Take(s, n) == IF n >= Len(s) THEN s ELSE IF n <= 0 THEN "" ELSE SubSeq(s, 1, n)

\* Characters of the sanitized name that are kept before the suffix: the
\* 83-character name of the tests keeps 49 with the 15-character default
\* suffix, and 63 (64, less the "-" then trimmed) with the empty one.
TruncLimit(suffix) == MaxIdLen - Len(suffix) + 1

\* The name cut at 63 whatever the suffix is, and no suffix in the default.
parse_app_name_and_id_cut_at_63(name, suffix) ==
    IF name = <<>>
      THEN <<DefaultAppName, DefaultAppName \o suffix>>
      ELSE <<StripTrailingDashes(Take(Sanitize(name[1]), MaxIdLen)),
             StripTrailingDashes(Take(Sanitize(name[1]), TruncLimit(suffix))) \o suffix>>

\* _parse_app_name_and_id(app_name, app_id_suffix) -> (app_name, app_id);
\* name is <<>> for None, suffix is what app_id_suffix() returns.
parse_app_name_and_id(name, suffix) ==
    IF name = <<>>
      THEN <<DefaultAppName \o suffix, DefaultAppName \o suffix>>
      ELSE LET cut == StripTrailingDashes(Take(Sanitize(name[1]), TruncLimit(suffix)))
           IN <<cut, cut \o suffix>>

\* The parameters of test_parse_app_name_and_id:
\* <<app_name, app_id_suffix(), expected_app_name, expected_app_id>>.
test_parse_app_name_and_id ==
    {
      <<<<"spark-app-name">>,
        "",
        "spark-app-name",
        "spark-app-name">>,
      <<<<"spark-app-name">>,
        default_app_id_suffix,
        "spark-app-name",
        "spark-app-name-20240114121231">>,
      <<<<"some-very-long-name-which-is-not-allowed-by-k8s-which-is-why-we-need-to-truncate-it">>,
        "",
        "some-very-long-name-which-is-not-allowed-by-k8s-which-is-why-we",
        "some-very-long-name-which-is-not-allowed-by-k8s-which-is-why-we">>,
      <<<<"some-very-long-name-which-is-not-allowed-by-k8s-which-is-why-we-need-to-truncate-it">>,
        default_app_id_suffix,
        "some-very-long-name-which-is-not-allowed-by-k8s-w",
        "some-very-long-name-which-is-not-allowed-by-k8s-w-20240114121231">>,
      <<<<"some-name-ends-with-invalid-character-">>,
        "",
        "some-name-ends-with-invalid-character",
        "some-name-ends-with-invalid-character">>,
      <<<<"some-name-ends-with-invalid-character-">>,
        default_app_id_suffix,
        "some-name-ends-with-invalid-character",
        "some-name-ends-with-invalid-character-20240114121231">>,
      <<<<"some.invalid_characters-in/the-name">>,
        "",
        "some-invalid-characters-in-the-name",
        "some-invalid-characters-in-the-name">>,
      <<<<"some.invalid_characters-in/the-name">>,
        default_app_id_suffix,
        "some-invalid-characters-in-the-name",
        "some-invalid-characters-in-the-name-20240114121231">>,
      <<<<"name.with_8.numerical-characters/12345678">>,
        "",
        "name-with-8-numerical-characters-12345678",
        "name-with-8-numerical-characters-12345678">>,
      <<<<"name.with_8.numerical-characters/12345678">>,
        default_app_id_suffix,
        "name-with-8-numerical-characters-12345678",
        "name-with-8-numerical-characters-12345678-20240114121231">>,
      <<<<"./-_---name-with-trailing-and-leading-dashes-_-_-,;">>,
        "",
        "name-with-trailing-and-leading-dashes",
        "name-with-trailing-and-leading-dashes">>,
      <<<<"./-_---name-with-trailing-and-leading-dashes-_-_-,;">>,
        default_app_id_suffix,
        "name-with-trailing-and-leading-dashes",
        "name-with-trailing-and-leading-dashes-20240114121231">>,
      <<<<"12345-name-starts-with-numbers">>,
        "",
        "name-starts-with-numbers",
        "name-starts-with-numbers">>,
      <<<<"12345-name-starts-with-numbers">>,
        default_app_id_suffix,
        "name-starts-with-numbers",
        "name-starts-with-numbers-20240114121231">>,
      <<<<>>,
        "",
        "spark-app",
        "spark-app">>,
      <<<<>>,
        default_app_id_suffix,
        "spark-app-20240114121231",
        "spark-app-20240114121231">>,
      <<<<"custom-app-id-suffix">>,
        "-custom-app-id-suffix",
        "custom-app-id-suffix",
        "custom-app-id-suffix-custom-app-id-suffix">>,
      <<<<"custom-dynamic-app-id-suffix">>,
        "-1705234351",
        "custom-dynamic-app-id-suffix",
        "custom-dynamic-app-id-suffix-1705234351">>
    }

\* Whether the model gives every expected value of the test.
ParsedAsTested ==
    \A t \in test_parse_app_name_and_id : parse_app_name_and_id(t[1], t[2]) = <<t[3], t[4]>>

\* Bounds of the inputs: raw names are a run of "a" of one of these lengths
\* followed by a tail of up to MaxTail characters, so that names end on both
\* sides of every truncation limit.
MaxTail == 3

PadLens == {0, 41, 47, 51, 62}

TailChars == {"a", "Z", "7", "-", "."}

RECURSIVE Tails(_)
Tails(k) ==
    IF k = 0 THEN {""}
    ELSE LET shorter == Tails(k - 1)
         IN shorter \cup {t \o c : t \in shorter, c \in TailChars}

RECURSIVE Pad(_)
Pad(n) ==
    IF n = 0 THEN ""
    ELSE IF n = 1 THEN "a"
    ELSE Pad(n \div 2) \o Pad(n - n \div 2)

RawNames ==
    {t[1] : t \in test_parse_app_name_and_id}
        \cup {<<Pad(n) \o t>> : n \in PadLens, t \in Tails(MaxTail) \ {""}}

\* The suffix functions of the tests: empty, the default, and the two custom.
Suffixes == {t[2] : t \in test_parse_app_name_and_id}

\* Nothing runs against the cluster.
LifecycleIdle ==
    /\ pod = [a \in Apps |-> "Absent"]
    /\ svc = [a \in Apps |-> FALSE]
    /\ created = {}
    /\ produced = [a \in Apps |-> <<>>]
    /\ pc = "idle"
    /\ cmd = "none"
    /\ app = "none"
    /\ force = FALSE
    /\ mode = "none"
    /\ obs = "none"
    /\ out = <<>>
    /\ stream = "none"
    /\ ret = "none"
    /\ err = "none"
    /\ driver_pods = <<>>
    /\ resp = <<>>
    /\ polls = 0
    /\ deleted_at = -1

InitName ==
    /\ app_name \in RawNames
    /\ app_id_suffix \in Suffixes
    /\ parsed = <<>>
    /\ LifecycleIdle
    /\ ManifestIdle

ParseCall ==
    /\ parsed = <<>>
    /\ parsed' = parse_app_name_and_id(app_name, app_id_suffix)
    /\ UNCHANGED <<cluster, client, listing, app_name, app_id_suffix, manifest, waiting>>

NextName == ParseCall

SpecName == InitName /\ [][NextName]_vars

AllIn(s, chars) == \A i \in 1..Len(s) : CharAt(s, i) \in chars

\* [a-z0-9]([-a-z0-9]*[a-z0-9])?
MatchesIdPattern(s) ==
    /\ s # ""
    /\ CharAt(s, 1) \in Letters \cup Digits
    /\ LastChar(s) \in Letters \cup Digits
    /\ AllIn(s, Letters \cup Digits \cup {"-"})

\* C3, as claimed: for every raw name and suffix function the id matches
\* [a-z0-9]([-a-z0-9]*[a-z0-9])? and is at most 63 characters long.
C3_IdIsLegal ==
    parsed # <<>> => (MatchesIdPattern(parsed[2]) /\ Len(parsed[2]) <= MaxIdLen)

\* The display name the claim describes: the sanitized base cut at 63, with
\* no part of the suffix in it.
SuffixFreeName(name) ==
    StripTrailingDashes(Take(Sanitize(IF name = <<>> THEN DefaultAppName ELSE name[1]), MaxIdLen))

----------------------------------------------------------------------------
\* ManifestBuilder: the args of the driver container that submit_app
\* creates, as test_submit_app and test_submit_app_with_env_configurations
\* assert them.

Conf(key, value) == <<"--conf", key \o "=" \o value>>

Mebibytes(n) == ToString(n) \o "m"

\* The configuration keys submit_app sets itself, in the order of the tests.
BuiltinKeys(ui_reverse_proxy) ==
    <<"spark.app.name",
      "spark.app.id",
      "spark.kubernetes.namespace",
      "spark.kubernetes.authenticate.driver.serviceAccountName",
      "spark.kubernetes.container.image",
      "spark.driver.host",
      "spark.driver.port",
      "spark.kubernetes.driver.pod.name",
      "spark.kubernetes.executor.podNamePrefix",
      "spark.kubernetes.container.image.pullPolicy",
      "spark.driver.memory",
      "spark.executor.cores",
      "spark.executor.memory",
      "spark.executor.memoryOverhead">>
    \o (IF ui_reverse_proxy
          THEN <<"spark.ui.proxyBase", "spark.ui.proxyRedirectUri">>
          ELSE <<>>)
    \o <<"spark.dynamicAllocation.enabled",
         "spark.dynamicAllocation.shuffleTracking.enabled",
         "spark.dynamicAllocation.minExecutors",
         "spark.dynamicAllocation.maxExecutors",
         "spark.dynamicAllocation.initialExecutors">>

\* Their values for options o and the identity <<name, id>>.
BuiltinValues(o, name, id) ==
    <<name,
      id,
      o.namespace,
      o.service_account,
      o.image,
      id,
      "7077",
      id \o "-driver",
      id,
      o.image_pull_policy,
      Mebibytes(o.driver_resources.memory),
      ToString(o.executor_resources.cpu),
      Mebibytes(o.executor_resources.memory),
      Mebibytes(o.executor_resources.memory_overhead)>>
    \o (IF o.ui_reverse_proxy
          THEN <<"/webserver/ui/" \o o.namespace \o "/" \o id, "/">>
          ELSE <<>>)
    \o <<"true",
         "true",
         ToString(o.executor_instances.min),
         ToString(o.executor_instances.max),
         ToString(o.executor_instances.initial)>>

\* One --conf pair per <<key, value>> of pairs, in the order of pairs.
RECURSIVE ConfArgs(_)
ConfArgs(pairs) ==
    IF pairs = <<>> THEN <<>>
    ELSE Conf(pairs[1][1], pairs[1][2]) \o ConfArgs(Tail(pairs))

Reversed(s) == [i \in 1..Len(s) |-> s[Len(s) + 1 - i]]

\* The entry-point class flag, only when class_name is set (<<>> is None).
ClassArgs(class_name) == IF class_name = <<>> THEN <<>> ELSE <<"--class", class_name[1]>>

MasterUrl == "k8s://https://kubernetes.default.svc.cluster.local:443"

\* spark_conf written out in reverse of the order it was given in.
BuildArgsConfReversed(o) ==
    LET identity == parse_app_name_and_id(o.app_name, default_app_id_suffix)
        keys == BuiltinKeys(o.ui_reverse_proxy)
        values == BuiltinValues(o, identity[1], identity[2])
    IN <<"driver", "--master", MasterUrl>>
       \o ConfArgs([i \in 1..Len(keys) |-> <<keys[i], values[i]>>])
       \o ConfArgs(Reversed(o.spark_conf))
       \o ClassArgs(o.class_name)
       \o <<o.app_path>>
       \o o.app_arguments

\* The args of the driver container for options o.
BuildArgs(o) ==
    LET identity == parse_app_name_and_id(o.app_name, default_app_id_suffix)
        keys == BuiltinKeys(o.ui_reverse_proxy)
        values == BuiltinValues(o, identity[1], identity[2])
    IN <<"driver", "--master", MasterUrl>>
       \o ConfArgs([i \in 1..Len(keys) |-> <<keys[i], values[i]>>])
       \o ConfArgs(o.spark_conf)
       \o ClassArgs(o.class_name)
       \o <<o.app_path>>
       \o o.app_arguments

\* test_submit_app: the options of the call and the args it expects.
test_submit_app ==
    [options |->
        [image |-> "pyspark-job",
         app_path |-> "local:///opt/spark/work-dir/job.py",
         namespace |-> "spark",
         service_account |-> "spark",
         app_name |-> <<"pyspark-job-example">>,
         app_arguments |-> <<"100000">>,
         image_pull_policy |-> "Never",
         ui_reverse_proxy |-> TRUE,
         driver_resources |-> [cpu |-> 1, memory |-> 2048, memory_overhead |-> 1024],
         executor_resources |-> [cpu |-> 1, memory |-> 1024, memory_overhead |-> 512],
         executor_instances |-> [min |-> 2, max |-> 5, initial |-> 5],
         spark_conf |-> <<>>,
         class_name |-> <<>>],
     args |->
        <<"driver",
          "--master",
          "k8s://https://kubernetes.default.svc.cluster.local:443",
          "--conf",
          "spark.app.name=pyspark-job-example",
          "--conf",
          "spark.app.id=pyspark-job-example-20240114121231",
          "--conf",
          "spark.kubernetes.namespace=spark",
          "--conf",
          "spark.kubernetes.authenticate.driver.serviceAccountName=spark",
          "--conf",
          "spark.kubernetes.container.image=pyspark-job",
          "--conf",
          "spark.driver.host=pyspark-job-example-20240114121231",
          "--conf",
          "spark.driver.port=7077",
          "--conf",
          "spark.kubernetes.driver.pod.name=pyspark-job-example-20240114121231-driver",
          "--conf",
          "spark.kubernetes.executor.podNamePrefix=pyspark-job-example-20240114121231",
          "--conf",
          "spark.kubernetes.container.image.pullPolicy=Never",
          "--conf",
          "spark.driver.memory=2048m",
          "--conf",
          "spark.executor.cores=1",
          "--conf",
          "spark.executor.memory=1024m",
          "--conf",
          "spark.executor.memoryOverhead=512m",
          "--conf",
          "spark.ui.proxyBase=/webserver/ui/spark/pyspark-job-example-20240114121231",
          "--conf",
          "spark.ui.proxyRedirectUri=/",
          "--conf",
          "spark.dynamicAllocation.enabled=true",
          "--conf",
          "spark.dynamicAllocation.shuffleTracking.enabled=true",
          "--conf",
          "spark.dynamicAllocation.minExecutors=2",
          "--conf",
          "spark.dynamicAllocation.maxExecutors=5",
          "--conf",
          "spark.dynamicAllocation.initialExecutors=5",
          "local:///opt/spark/work-dir/job.py",
          "100000">>]

\* test_submit_app_with_env_configurations: the options the environment
\* sets and the args it expects.
test_submit_app_with_env_configurations ==
    [options |->
        [image |-> "test-spark-on-k8s-docker-image",
         app_path |-> "/path/to/app.py",
         namespace |-> "test-namespace",
         service_account |-> "test-service-account",
         app_name |-> <<"test-spark-app">>,
         app_arguments |-> <<"arg1", "arg2">>,
         image_pull_policy |-> "Always",
         ui_reverse_proxy |-> TRUE,
         driver_resources |-> [cpu |-> 1, memory |-> 1024, memory_overhead |-> 512],
         executor_resources |-> [cpu |-> 1, memory |-> 718, memory_overhead |-> 512],
         executor_instances |-> [min |-> 2, max |-> 5, initial |-> 5],
         spark_conf |-> <<<<"spark.conf1.key", "spark.conf1.value">>,
                          <<"spark.conf2.key", "spark.conf2.value">>>>,
         class_name |-> <<>>],
     args |->
        <<"driver",
          "--master",
          "k8s://https://kubernetes.default.svc.cluster.local:443",
          "--conf",
          "spark.app.name=test-spark-app",
          "--conf",
          "spark.app.id=test-spark-app-20240114121231",
          "--conf",
          "spark.kubernetes.namespace=test-namespace",
          "--conf",
          "spark.kubernetes.authenticate.driver.serviceAccountName=test-service-account",
          "--conf",
          "spark.kubernetes.container.image=test-spark-on-k8s-docker-image",
          "--conf",
          "spark.driver.host=test-spark-app-20240114121231",
          "--conf",
          "spark.driver.port=7077",
          "--conf",
          "spark.kubernetes.driver.pod.name=test-spark-app-20240114121231-driver",
          "--conf",
          "spark.kubernetes.executor.podNamePrefix=test-spark-app-20240114121231",
          "--conf",
          "spark.kubernetes.container.image.pullPolicy=Always",
          "--conf",
          "spark.driver.memory=1024m",
          "--conf",
          "spark.executor.cores=1",
          "--conf",
          "spark.executor.memory=718m",
          "--conf",
          "spark.executor.memoryOverhead=512m",
          "--conf",
          "spark.ui.proxyBase=/webserver/ui/test-namespace/test-spark-app-20240114121231",
          "--conf",
          "spark.ui.proxyRedirectUri=/",
          "--conf",
          "spark.dynamicAllocation.enabled=true",
          "--conf",
          "spark.dynamicAllocation.shuffleTracking.enabled=true",
          "--conf",
          "spark.dynamicAllocation.minExecutors=2",
          "--conf",
          "spark.dynamicAllocation.maxExecutors=5",
          "--conf",
          "spark.dynamicAllocation.initialExecutors=5",
          "--conf",
          "spark.conf1.key=spark.conf1.value",
          "--conf",
          "spark.conf2.key=spark.conf2.value",
          "/path/to/app.py",
          "arg1",
          "arg2">>]

\* Whether the model gives the args both tests expect.
BuiltAsTested ==
    \A t \in {test_submit_app, test_submit_app_with_env_configurations} :
        BuildArgs(t.options) = t.args

\* Bounds of the inputs: the options of either test, with up to MaxConf
\* spark_conf entries in any order of insertion and up to MaxArgs arguments,
\* with or without the reverse proxy and the class.
MaxConf == 2

MaxArgs == 2

ConfEntries ==
    {<<"spark.conf1.key", "spark.conf1.value">>,
     <<"spark.conf2.key", "spark.conf2.value">>,
     <<"spark.conf3.key", "spark.conf3.value">>}

ArgValues == {"arg1", "arg2"}

\* Sequences of at most n elements of S.
SeqsUpTo(S, n) == UNION {[1..k -> S] : k \in 0..n}

\* A dict has each key once.
SparkConfs ==
    {c \in SeqsUpTo(ConfEntries, MaxConf) :
        \A i, j \in 1..Len(c) : c[i][1] = c[j][1] => i = j}

OptionsSet ==
    {[base EXCEPT !.spark_conf = c, !.app_arguments = a,
                  !.class_name = k, !.ui_reverse_proxy = p] :
        base \in {test_submit_app.options, test_submit_app_with_env_configurations.options},
        c \in SparkConfs,
        a \in SeqsUpTo(ArgValues, MaxArgs),
        k \in {<<>>, <<"org.apache.spark.examples.SparkPi">>},
        p \in BOOLEAN}

InitArgs ==
    /\ options \in OptionsSet
    /\ args = <<>>
    /\ LifecycleIdle
    /\ NamingIdle

BuildCall ==
    /\ args = <<>>
    /\ args' = BuildArgs(options)
    /\ UNCHANGED <<cluster, client, listing, naming, options, waiting>>

NextArgs == BuildCall

SpecArgs == InitArgs /\ [][NextArgs]_vars

\* Elements of the args before the user's spark_conf.
BuiltinLen(o) == 3 + 2 * Len(BuiltinKeys(o.ui_reverse_proxy))

StartsWith(s, prefix) == Len(s) >= Len(prefix) /\ SubSeq(s, 1, Len(prefix)) = prefix

\* C5: the args are, in this order: "driver", "--master" and the master
\* url; one "--conf key=value" pair per built-in key in the fixed sequence
\* (the two proxy keys only with the reverse proxy); one pair per spark_conf
\* entry in insertion order; "--class" and the class only if it is set; the
\* application path; the application arguments in the order given; and
\* nothing else.
C5_ArgsInFixedOrder ==
    args # <<>> =>
        LET o == options
            n == Len(args)
            k == Len(o.app_arguments)
            c == Len(o.spark_conf)
            b == BuiltinLen(o)
            keys == BuiltinKeys(o.ui_reverse_proxy)
            cls == IF o.class_name = <<>> THEN 0 ELSE 2
        IN /\ n = b + 2 * c + cls + 1 + k
           /\ SubSeq(args, 1, 3) = <<"driver", "--master", MasterUrl>>
           /\ \A i \in 1..Len(keys) :
                /\ args[2 + 2 * i] = "--conf"
                /\ StartsWith(args[3 + 2 * i], keys[i] \o "=")
           /\ \A i \in 1..c :
                /\ args[b + 2 * i - 1] = "--conf"
                /\ args[b + 2 * i] = o.spark_conf[i][1] \o "=" \o o.spark_conf[i][2]
           /\ o.class_name # <<>> =>
                (args[n - k - 2] = "--class" /\ args[n - k - 1] = o.class_name[1])
           /\ o.class_name = <<>> => \A i \in 1..n : args[i] # "--class"
           /\ ~o.ui_reverse_proxy =>
                \A i \in 1..n : ~StartsWith(args[i], "spark.ui.proxy")
           /\ args[n - k] = o.app_path
           /\ SubSeq(args, n - k + 1, n) = o.app_arguments

\* C5 happens: a submission with a class, no reverse proxy, two arguments
\* and spark.conf2.key inserted before spark.conf1.key was built: the two
\* entries come in that order, then the class, the path and the arguments.
C5_Witness ==
    /\ args # <<>>
    /\ options.class_name = <<"org.apache.spark.examples.SparkPi">>
    /\ ~options.ui_reverse_proxy
    /\ options.spark_conf = <<<<"spark.conf2.key", "spark.conf2.value">>,
                              <<"spark.conf1.key", "spark.conf1.value">>>>
    /\ options.app_arguments = <<"arg2", "arg1">>
    /\ SubSeq(args, Len(args) - 8, Len(args)) =
          <<"--conf", "spark.conf2.key=spark.conf2.value",
            "--conf", "spark.conf1.key=spark.conf1.value",
            "--class", "org.apache.spark.examples.SparkPi",
            options.app_path, "arg2", "arg1">>

====
